---- MODULE Spec2Model ----
(***************************************************************************)
(* Borrow / return accounting of the Smart Library Management System.      *)
(*                                                                         *)
(* Two storage paths live side by side in the repository:                  *)
(*   - db.py: tables books and borrow_records, operations borrow_book_db   *)
(*     and return_book_db;                                                 *)
(*   - app.py: the spreadsheets of data/ (the catalog) and the table       *)
(*     borrowed_records, operated by the Borrow Book and Return Book       *)
(*     button handlers of the user page.                                   *)
(*                                                                         *)
(* Time is counted in ticks, TicksPerDay ticks to the day.  clock is the   *)
(* UTC time; the process's local time is clock + tz.  SQLite's             *)
(* CURRENT_TIMESTAMP is UTC, pd.Timestamp.now() and datetime.now() are     *)
(* local.  A NULL / None / NaT value is the empty tuple, a present value v *)
(* is the one-element tuple <<v>>.                                         *)
(*                                                                         *)
(* Besides the whole operations, the module holds the db.py operations     *)
(* statement by statement (transactions, interleaved connections), the     *)
(* edits of the catalog (add_book, update_book_copies, the import, the     *)
(* upload), the loan listings and the login page.                          *)
(***************************************************************************)
EXTENDS Integers, Sequences, FiniteSets, TLC

\* ------------------------------------------------------------------ bounds
MaxRecords == 2     \* rows a ledger may hold (both ledgers together)
MaxCopies == 2      \* largest initial copies value of a book
MaxAdvances == 2    \* times the clock may advance
TicksPerDay == 2    \* clock resolution
MaxProcs == 2       \* db.py calls that may be in progress at once
MaxBookId == 3      \* largest book_id the books table may give
MaxFiles == 2       \* spreadsheets data/ may hold

\* ------------------------------------------------------- program constants
GRACE_DAYS == 7
RATE == 1

NULL == << >>
Some(v) == <<v>>
IsNull(x) == x = NULL
Val(x) == x[1]

UserIds == 1..2
BookIds == 1..2
UnknownBook == 3            \* a book_id no row of books carries
TZ == {-1, 0, 1}            \* local offset from UTC in ticks
Jumps == {1, TicksPerDay, GRACE_DAYS * TicksPerDay}   \* a tick, a day, the grace period

\* names of accounts: "Al", "AL", "Bo"
Al == <<"A", "l">>
AL == <<"A", "L">>
Bo == <<"B", "o">>
Names == {Al, AL, Bo}

\* book titles as typed into the spreadsheets: "Du", "du", "It"
Du == <<"D", "u">>
du == <<"d", "u">>
It == <<"I", "t">>
Titles == {Du, du, It}

Row(title, n) == [title |-> title, copies_available |-> n, stock |-> NULL]
File(rows) == [titleCol |-> "title", countCols |-> {"copies_available"}, rows |-> rows]

\* the catalogs the data/ folder starts with: one spreadsheet of two titles,
\* or one spreadsheet listing a title twice, in two spellings
Catalogs ==
    {<<File(<<Row(Du, Some(c)), Row(It, Some(1))>>)>> : c \in 1..MaxCopies} \cup
    {<<File(<<Row(du, Some(0)), Row(Du, Some(1))>>)>>}

\* spreadsheets a library may keep in data/ under the other headers
\* load_all_books accepts: the title under "Book Title" and the count under
\* "Stock"; the count under "Stock" only; a title typed with a leading blank
AliasFile ==
    [titleCol |-> "book_title", countCols |-> {"stock"},
     rows |-> <<[title |-> Du, copies_available |-> NULL, stock |-> Some(1)]>>]
StockFile ==
    [titleCol |-> "title", countCols |-> {"stock"},
     rows |-> <<[title |-> Du, copies_available |-> NULL, stock |-> Some(MaxCopies)]>>]
BlankFile == File(<<Row(<<" ", "D", "u">>, Some(1)), Row(It, Some(1))>>)
AliasCatalogs == {<<AliasFile>>, <<StockFile>>, <<BlankFile>>, <<AliasFile, BlankFile>>}

Max(a, b) == IF a >= b THEN a ELSE b

VARIABLES
    clock,              \* UTC time in ticks
    advances,           \* times the clock advanced
    tz,                 \* offset of the process's local clock from UTC
    books,              \* db.py table books: book_id -> copies
    borrow_records,     \* db.py table borrow_records, in record_id order
    dataFiles,          \* app.py: the spreadsheets of data/, in os.listdir order
    borrowed_records,   \* app.py table borrowed_records, in id order
    lastCall,           \* the last operation, what it read and what it returned
    books_seq,          \* sqlite_sequence of books: the largest book_id ever given
    users,              \* table users: email -> [name, password, role]
    procs,              \* the db.py calls in progress, one connection each
    session             \* app.py st.session_state: page, user, user_id

vars == <<clock, advances, tz, books, borrow_records, dataFiles, borrowed_records,
          lastCall, books_seq, users, procs, session>>

\* rows of both ledgers
RecordCount == Len(borrow_records) + Len(borrowed_records)

\* ---------------------------------------------------------------- clocks
CURRENT_TIMESTAMP == clock
LocalNow == clock + tz

\* (a - b).days of a timedelta: whole days, rounded down
Days(delta) == delta \div TicksPerDay

\* a db.py call in progress runs on a connection of its own
ProcIds == 1..MaxProcs
Idle == [pc |-> "idle", work |-> NULL]

\* ------------------------------------------------------- db.py: borrowing
\* SELECT copies FROM books WHERE book_id=:book_id ... fetchone()
SelectCopies(b) == IF b \in DOMAIN books THEN Some(books[b]) ELSE NULL

Unavailable_NegOnly(res) == IsNull(res) \/ Val(res) < 0
Unavailable_NoRowCheck(res) == ~IsNull(res) /\ Val(res) <= 0

\* if not res or res[0] <= 0
Unavailable(res) == IsNull(res) \/ Val(res) <= 0

\* INSERT INTO borrow_records (user_id, book_id): record_id autoincrements,
\* borrow_date defaults to CURRENT_TIMESTAMP, return_date to NULL, fine to 0
NewBorrowRecord(u, b) ==
    [record_id |-> Len(borrow_records) + 1, user_id |-> u, book_id |-> b,
     borrow_date |-> CURRENT_TIMESTAMP, return_date |-> NULL, fine |-> 0]

UpdateCopies_Twice(b, d) ==
    IF b \in DOMAIN books THEN [books EXCEPT ![b] = @ + 2 * d] ELSE books

\* UPDATE books SET copies=copies+d WHERE book_id=:book_id
UpdateCopies(b, d) ==
    IF b \in DOMAIN books THEN [books EXCEPT ![b] = @ + d] ELSE books

borrow_book_db(u, b) ==
    LET res == SelectCopies(b) IN
    /\ IF Unavailable(res)
       THEN /\ lastCall' = [op |-> "borrow_book_db", res |-> res, ret |-> FALSE]
            /\ UNCHANGED <<books, borrow_records>>
       ELSE /\ RecordCount < MaxRecords
            /\ borrow_records' = Append(borrow_records, NewBorrowRecord(u, b))
            /\ books' = UpdateCopies(b, -1)
            /\ lastCall' = [op |-> "borrow_book_db", res |-> res, ret |-> TRUE]
    /\ UNCHANGED <<clock, advances, tz, dataFiles, borrowed_records, books_seq, users, procs, session>>

\* -------------------------------------------------------- db.py: returning
IsOpenRecordOf_AnyState(rec, u, b) == rec.user_id = u /\ rec.book_id = b

\* WHERE user_id=:uid AND book_id=:bid AND return_date IS NULL
IsOpenRecordOf(rec, u, b) ==
    rec.user_id = u /\ rec.book_id = b /\ IsNull(rec.return_date)

OpenRecordIdxs(u, b) ==
    {i \in DOMAIN borrow_records : IsOpenRecordOf(borrow_records[i], u, b)}

\* ORDER BY borrow_date DESC LIMIT 1: a row with the latest borrow_date; SQL
\* leaves the order of rows with equal borrow_date open
LatestOpenIdxs(u, b) ==
    {i \in OpenRecordIdxs(u, b) :
        \A j \in OpenRecordIdxs(u, b) :
            borrow_records[j].borrow_date <= borrow_records[i].borrow_date}

FineDb_NoGrace(borrow_date) == Max(0, Days(LocalNow - borrow_date))

\* days = (pd.Timestamp.now() - borrow_ts).days ; fine = max(0, (days - 7))
FineDb(borrow_date) == Max(0, Days(LocalNow - borrow_date) - GRACE_DAYS)

return_book_db(u, b) ==
    /\ IF OpenRecordIdxs(u, b) = {}
       THEN /\ lastCall' = [op |-> "return_book_db", ret |-> NULL]
            /\ UNCHANGED <<books, borrow_records>>
       ELSE \E i \in LatestOpenIdxs(u, b) :
            LET fine == FineDb(borrow_records[i].borrow_date) IN
            /\ borrow_records' =
                 [borrow_records EXCEPT ![i].return_date = Some(CURRENT_TIMESTAMP),
                                        ![i].fine = fine]
            /\ books' = UpdateCopies(b, 1)
            /\ lastCall' = [op |-> "return_book_db", ret |-> Some(fine)]
    /\ UNCHANGED <<clock, advances, tz, dataFiles, borrowed_records, books_seq, users, procs, session>>

\* ----------------------------------- db.py: the operations, step by step
\* A call runs on a connection of its own.  pysqlite opens the transaction
\* of "with engine.begin()" at the first INSERT or UPDATE: the SELECT reads the
\* committed tables and holds no lock afterwards.  The writes of the open
\* transaction are kept in work until the block is left: by return (commit)
\* or by an exception (rollback).  SQLite lets one connection write at a time.
appVars == <<dataFiles, borrowed_records>>
envVars == <<clock, advances, tz, books_seq, users, session>>

WriteLocked(p) == \E q \in ProcIds \ {p} : procs[q].work # NULL

UpdateCopiesIn(table, b, d) ==
    IF b \in DOMAIN table THEN [table EXCEPT ![b] = @ + d] ELSE table

\* lines 175-181: the SELECT and the check
borrow_select(p, u, b) ==
    LET res == SelectCopies(b) IN
    /\ procs[p].pc = "idle"
    /\ IF Unavailable(res)
       THEN /\ lastCall' = [op |-> "borrow_book_db", res |-> res, ret |-> FALSE]
            /\ UNCHANGED procs
       ELSE /\ procs' = [procs EXCEPT ![p] =
                          [pc |-> "insert", op |-> "borrow_book_db", u |-> u, b |-> b,
                           res |-> res, work |-> NULL]]
            /\ UNCHANGED lastCall
    /\ UNCHANGED <<books, borrow_records>>
    /\ UNCHANGED <<appVars, envVars>>

\* lines 183-186: the INSERT, which opens the transaction
borrow_insert(p) ==
    /\ procs[p].pc = "insert"
    /\ ~WriteLocked(p)
    /\ RecordCount < MaxRecords
    /\ procs' = [procs EXCEPT
                   ![p].pc = "update",
                   ![p].work = Some([borrow_records |->
                                        Append(borrow_records,
                                               NewBorrowRecord(procs[p].u, procs[p].b)),
                                    books |-> books])]
    /\ UNCHANGED <<books, borrow_records, lastCall>>
    /\ UNCHANGED <<appVars, envVars>>

\* lines 188-191: UPDATE books SET copies=copies-1
borrow_update(p) ==
    /\ procs[p].pc = "update"
    /\ procs' = [procs EXCEPT
                   ![p].pc = "commit",
                   ![p].work = Some([Val(@) EXCEPT
                                       !.books = UpdateCopiesIn(@, procs[p].b, -1)])]
    /\ UNCHANGED <<books, borrow_records, lastCall>>
    /\ UNCHANGED <<appVars, envVars>>

\* lines 196-209: the SELECT of the open record, the check and the fine
return_select(p, u, b) ==
    /\ procs[p].pc = "idle"
    /\ IF OpenRecordIdxs(u, b) = {}
       THEN /\ lastCall' = [op |-> "return_book_db", ret |-> NULL]
            /\ UNCHANGED procs
       ELSE /\ \E i \in LatestOpenIdxs(u, b) :
                 procs' = [procs EXCEPT ![p] =
                            [pc |-> "update_record", op |-> "return_book_db",
                             u |-> u, b |-> b, rid |-> i,
                             fine |-> FineDb(borrow_records[i].borrow_date),
                             work |-> NULL]]
            /\ UNCHANGED lastCall
    /\ UNCHANGED <<books, borrow_records>>
    /\ UNCHANGED <<appVars, envVars>>

\* lines 211-215: UPDATE borrow_records ... WHERE record_id=:rid, which opens
\* the transaction
return_update_record(p) ==
    /\ procs[p].pc = "update_record"
    /\ ~WriteLocked(p)
    /\ procs' = [procs EXCEPT
                   ![p].pc = "update_copies",
                   ![p].work = Some([borrow_records |->
                                        [borrow_records EXCEPT
                                           ![procs[p].rid].return_date = Some(CURRENT_TIMESTAMP),
                                           ![procs[p].rid].fine = procs[p].fine],
                                    books |-> books])]
    /\ UNCHANGED <<books, borrow_records, lastCall>>
    /\ UNCHANGED <<appVars, envVars>>

\* lines 217-220: UPDATE books SET copies=copies+1
return_update_copies(p) ==
    /\ procs[p].pc = "update_copies"
    /\ procs' = [procs EXCEPT
                   ![p].pc = "commit",
                   ![p].work = Some([Val(@) EXCEPT
                                       !.books = UpdateCopiesIn(@, procs[p].b, 1)])]
    /\ UNCHANGED <<books, borrow_records, lastCall>>
    /\ UNCHANGED <<appVars, envVars>>

\* return True / return fine: the with block is left and commits
Commit(p) ==
    /\ procs[p].pc = "commit"
    /\ books' = Val(procs[p].work).books
    /\ borrow_records' = Val(procs[p].work).borrow_records
    /\ lastCall' = IF procs[p].op = "borrow_book_db"
                   THEN [op |-> "borrow_book_db", res |-> procs[p].res, ret |-> TRUE]
                   ELSE [op |-> "return_book_db", ret |-> Some(procs[p].fine)]
    /\ procs' = [procs EXCEPT ![p] = Idle]
    /\ UNCHANGED <<appVars, envVars>>

RolledBack_KeepsWrites(p) == Val(procs[p].work)

\* the tables after the rollback of the transaction of p
RolledBack(p) == [books |-> books, borrow_records |-> borrow_records]

\* a statement after the first write raises (or the process dies): the with
\* block is left by the exception and rolls back
Raise(p) ==
    /\ procs[p].work # NULL
    /\ books' = RolledBack(p).books
    /\ borrow_records' = RolledBack(p).borrow_records
    /\ lastCall' = [op |-> procs[p].op, ret |-> "raised", at |-> procs[p].pc]
    /\ procs' = [procs EXCEPT ![p] = Idle]
    /\ UNCHANGED <<appVars, envVars>>

\* ------------------------------------------------- db.py: catalog edits
dbVars == <<books, books_seq, borrow_records>>
clockVars == <<clock, advances, tz>>

\* the book_id an INSERT INTO books gets, n rows having been inserted since
\* the last look at sqlite_sequence: AUTOINCREMENT never gives an id again
NextBookId(n) == books_seq + n

\* the sheets import_books_from_excel is given: the copies column, row by row
Sheets == {<<1>>}

\* add_book(title, author, price, copies)
add_book(copies) ==
    /\ books_seq < MaxBookId
    /\ books' = [b \in DOMAIN books \cup {NextBookId(1)} |->
                    IF b = NextBookId(1) THEN copies ELSE books[b]]
    /\ books_seq' = NextBookId(1)
    /\ lastCall' = [op |-> "add_book"]
    /\ UNCHANGED <<borrow_records, clockVars, appVars, users, procs, session>>

\* update_book_copies(book_id, new_copies)
update_book_copies(b, new_copies) ==
    /\ books' = IF b \in DOMAIN books THEN [books EXCEPT ![b] = new_copies] ELSE books
    /\ lastCall' = [op |-> "update_book_copies"]
    /\ UNCHANGED <<books_seq, borrow_records, clockVars, appVars, users, procs, session>>

\* import_books_from_excel(filepath): DELETE FROM books, then one INSERT for
\* each row of the sheet; borrow_records is not touched (SQLite does not
\* enforce the FOREIGN KEY clauses unless PRAGMA foreign_keys is set)
import_books_from_excel(sheet) ==
    /\ books_seq + Len(sheet) <= MaxBookId
    /\ books' = [b \in {NextBookId(n) : n \in DOMAIN sheet} |-> sheet[b - books_seq]]
    /\ books_seq' = NextBookId(Len(sheet))
    /\ lastCall' = [op |-> "import_books_from_excel"]
    /\ UNCHANGED <<borrow_records, clockVars, appVars, users, procs, session>>

\* ------------------------------------------------------------ app.py: text
\* Text is a tuple of characters.
LowerChar(c) ==
    CASE c = "A" -> "a" [] c = "B" -> "b" [] c = "D" -> "d" [] c = "I" -> "i"
      [] c = "L" -> "l" [] c = "O" -> "o" [] c = "T" -> "t" [] c = "U" -> "u"
      [] c = "Shanker" -> "shanker"
      [] OTHER -> c

\* str.lower()
Lower(s) == [i \in DOMAIN s |-> LowerChar(s[i])]

RECURSIVE LStrip(_)
LStrip(s) == IF s # << >> /\ Head(s) = " " THEN LStrip(Tail(s)) ELSE s

RECURSIVE RStrip(_)
RStrip(s) ==
    IF s # << >> /\ s[Len(s)] = " " THEN RStrip(SubSeq(s, 1, Len(s) - 1)) ELSE s

\* str.strip()
Strip(s) == RStrip(LStrip(s))

\* ------------------------------------------------- app.py: the spreadsheets
\* A spreadsheet of data/ is [titleCol, countCols, rows]: the header of its
\* title column and the set of its count columns, both as normalised by
\* c.strip().lower().replace(" ", "_"), and its rows [title, copies_available,
\* stock], a cell of a count column being NULL when empty.

\* load_all_books renames the columns by its mapping: book_title is read as
\* title, stock as copies_available.
\* pd.to_numeric(df["copies_available"]) raises TypeError when the renaming
\* leaves two columns called copies_available (df[...] is then a DataFrame)
LoadRaisesOn(file) == file.countCols = {"copies_available", "stock"}

LoadRaises == \E f \in DOMAIN dataFiles : LoadRaisesOn(dataFiles[f])

\* the cell load_all_books reads as copies_available; a missing column is None
LoadedCell(file, row) ==
    IF "copies_available" \in file.countCols THEN row.copies_available
    ELSE IF "stock" \in file.countCols THEN row.stock
    ELSE NULL

\* pd.to_numeric(..., errors="coerce").fillna(1).astype(int).clip(lower=0)
LoadedCopies(file, row) ==
    LET cell == LoadedCell(file, row) IN
    IF IsNull(cell) THEN 1 ELSE Max(0, Val(cell))

\* load_all_books(): the rows of every file, title stripped, blank titles
\* dropped, as <<file index, row index>>
BookRows ==
    {fr \in UNION {{<<f, r>> : r \in DOMAIN dataFiles[f].rows} : f \in DOMAIN dataFiles} :
        Strip(dataFiles[fr[1]].rows[fr[2]].title) # << >>}

BookTitle(fr) == Strip(dataFiles[fr[1]].rows[fr[2]].title)
BookCopies(fr) == LoadedCopies(dataFiles[fr[1]], dataFiles[fr[1]].rows[fr[2]])

\* available_books = books_df[books_df["copies_available"] > 0]; the titles
\* the borrow selectbox offers
AvailableTitles == {BookTitle(fr) : fr \in {x \in BookRows : BookCopies(x) > 0}}

\* find_book_in_data_files: the first file with a column called title (no
\* renaming here) holding a row whose title, lower-cased, is the lower-cased
\* title asked for; idx is the first such row.  NULL when there is none.
MatchingRows(file, title) ==
    IF file.titleCol # "title" THEN {}
    ELSE {r \in DOMAIN file.rows : Lower(file.rows[r].title) = Lower(title)}

Min(S) == CHOOSE m \in S : \A n \in S : m <= n

find_book_in_data_files(title) ==
    LET hits == {f \in DOMAIN dataFiles : MatchingRows(dataFiles[f], title) # {}} IN
    IF hits = {} THEN NULL
    ELSE Some(<<Min(hits), Min(MatchingRows(dataFiles[Min(hits)], title))>>)

\* the stock update of a handler: the column copies_available is added
\* with the value fill when the file lacks it; an empty cell counts as fill;
\* the cell becomes new(current); the file is saved
WithCountCol(file, fill) ==
    IF "copies_available" \in file.countCols THEN file
    ELSE [file EXCEPT !.countCols = @ \cup {"copies_available"},
                      !.rows = [r \in DOMAIN @ |-> [@[r] EXCEPT !.copies_available = Some(fill)]]]

CurrentCopies(file, idx, fill) ==
    LET cell == WithCountCol(file, fill).rows[idx].copies_available IN
    IF IsNull(cell) THEN fill ELSE Val(cell)

BorrowedCount_NoClamp(current) == current - 1

\* max(0, current - 1)
BorrowedCount(current) == Max(0, current - 1)

\* current + 1
ReturnedCount(current) == current + 1

UpdateStockOnBorrow(title) ==
    LET hit == find_book_in_data_files(title) IN
    IF IsNull(hit) THEN dataFiles
    ELSE LET f == Val(hit)[1]
             idx == Val(hit)[2]
         IN [dataFiles EXCEPT ![f] =
               [WithCountCol(@, 1) EXCEPT !.rows[idx].copies_available =
                    Some(BorrowedCount(CurrentCopies(dataFiles[f], idx, 1)))]]

UpdateStockOnReturn(title) ==
    LET hit == find_book_in_data_files(title) IN
    IF IsNull(hit) THEN dataFiles
    ELSE LET f == Val(hit)[1]
             idx == Val(hit)[2]
         IN [dataFiles EXCEPT ![f] =
               [WithCountCol(@, 0) EXCEPT !.rows[idx].copies_available =
                    Some(ReturnedCount(CurrentCopies(dataFiles[f], idx, 0)))]]

\* --------------------------------------------------- app.py: Borrow Book
IsExistingLoan_ExactCase(rec, user, title) ==
    /\ rec.user = user
    /\ rec.title = title
    /\ IsNull(rec.return_date)

\* (user.str.lower() == session user.lower()) & (title == selected_book)
\*   & return_date.isna()
IsExistingLoan(rec, user, title) ==
    /\ Lower(rec.user) = Lower(user)
    /\ rec.title = title
    /\ IsNull(rec.return_date)

Existing(user, title) ==
    {i \in DOMAIN borrowed_records : IsExistingLoan(borrowed_records[i], user, title)}

NewBorrowedRecord_DueAtBorrow(user, title) ==
    [id |-> Len(borrowed_records) + 1, user |-> user, title |-> title,
     borrow_date |-> LocalNow, return_date |-> NULL, due |-> LocalNow, fine |-> 0]

\* save_record_to_db(user, title, borrow_date=now, due_date=now + 7 days)
NewBorrowedRecord(user, title) ==
    [id |-> Len(borrowed_records) + 1, user |-> user, title |-> title,
     borrow_date |-> LocalNow, return_date |-> NULL,
     due |-> LocalNow + GRACE_DAYS * TicksPerDay, fine |-> 0]

BorrowBook(user, selected_book) ==
    /\ ~LoadRaises
    /\ selected_book \in AvailableTitles
    /\ IF Existing(user, selected_book) # {}
       THEN /\ lastCall' = [op |-> "Borrow Book", user |-> user, title |-> selected_book,
                            ret |-> "already borrowed"]
            /\ UNCHANGED <<borrowed_records, dataFiles>>
       ELSE /\ RecordCount < MaxRecords
            /\ borrowed_records' =
                 Append(borrowed_records, NewBorrowedRecord(user, selected_book))
            /\ dataFiles' = UpdateStockOnBorrow(selected_book)
            /\ lastCall' = [op |-> "Borrow Book", user |-> user, title |-> selected_book,
                            ret |-> "borrowed"]
    /\ UNCHANGED <<clock, advances, tz, books, borrow_records, books_seq, users, procs, session>>

\* --------------------------------------------------- app.py: Return Book
IsUserBorrow_ExactCase(rec, user) == rec.user = user /\ IsNull(rec.return_date)

IsUserBorrow_AnyState(rec, user) == Lower(rec.user) = Lower(user)

\* (user.str.lower() == session user.lower()) & return_date.isna()
IsUserBorrow(rec, user) == Lower(rec.user) = Lower(user) /\ IsNull(rec.return_date)

user_borrows(user) ==
    {i \in DOMAIN borrowed_records : IsUserBorrow(borrowed_records[i], user)}

\* the titles the return selectbox offers
ReturnChoices(user) == {borrowed_records[i].title : i \in user_borrows(user)}

\* rec = user_borrows[user_borrows["title"] == return_choice].iloc[0]
ReturnRec(user, return_choice) ==
    Min({i \in user_borrows(user) : borrowed_records[i].title = return_choice})

FineApp_NoGrace(borrow_date) == Max(0, Days(LocalNow - borrow_date)) * RATE

\* total_days = (today - borrow_date).days
\* late_days = max(0, total_days - GRACE_DAYS) ; fine = late_days * 1
FineApp(borrow_date) == Max(0, Days(LocalNow - borrow_date) - GRACE_DAYS) * RATE

ReturnBook(user, return_choice) ==
    /\ ~LoadRaises
    /\ return_choice \in ReturnChoices(user)
    /\ LET i == ReturnRec(user, return_choice)
           fine == FineApp(borrowed_records[i].borrow_date)
       IN /\ borrowed_records' =
                [borrowed_records EXCEPT ![i].return_date = Some(LocalNow),
                                         ![i].fine = fine]
          /\ dataFiles' = UpdateStockOnReturn(return_choice)
          /\ lastCall' = [op |-> "Return Book", user |-> user, title |-> return_choice,
                          ret |-> Some(fine)]
    /\ UNCHANGED <<clock, advances, tz, books, borrow_records, books_seq, users, procs, session>>

\* ---------------------------------------------------------- the listings
\* A listing is the sequence of the indexes of the rows it shows.
\* ORDER BY borrow_date DESC / sort_values(by="borrow_date", ascending=False):
\* the rows idxs of the table recs, latest borrow_date first; rows of equal
\* borrow_date come in any order
NewestFirst(recs, idxs) ==
    {q \in [1..Cardinality(idxs) -> idxs] :
        \A i, j \in 1..Cardinality(idxs) :
            i < j => /\ q[i] # q[j]
                     /\ recs[q[i]].borrow_date >= recs[q[j]].borrow_date}

\* get_user_records_df_by_userid: ... JOIN books b ON br.book_id=b.book_id
\* WHERE br.user_id=:uid ORDER BY br.borrow_date DESC
get_user_records_df_by_userid(uid) ==
    /\ \E q \in NewestFirst(borrow_records,
                             {i \in DOMAIN borrow_records :
                                 /\ borrow_records[i].user_id = uid
                                 /\ borrow_records[i].book_id \in DOMAIN books}) :
          lastCall' = [op |-> "get_user_records_df_by_userid", rows |-> q]
    /\ UNCHANGED <<dbVars, appVars, clockVars, users, procs, session>>

\* get_all_borrow_records_df: ... LEFT JOIN users ... LEFT JOIN books ...
\* ORDER BY br.borrow_date DESC
get_all_borrow_records_df ==
    /\ \E q \in NewestFirst(borrow_records, DOMAIN borrow_records) :
          lastCall' = [op |-> "get_all_borrow_records_df", rows |-> q]
    /\ UNCHANGED <<dbVars, appVars, clockVars, users, procs, session>>

\* admin page, tab All User Records: the records of the selected user, or of
\* all users (selected_user NULL), sorted by borrow_date, latest first
AllUserRecordsTab(selected_user) ==
    /\ selected_user # NULL
         => \E i \in DOMAIN borrowed_records : borrowed_records[i].user = Val(selected_user)
    /\ \E q \in NewestFirst(borrowed_records,
                             {i \in DOMAIN borrowed_records :
                                 \/ selected_user = NULL
                                 \/ borrowed_records[i].user = Val(selected_user)}) :
          lastCall' = [op |-> "All User Records", rows |-> q]
    /\ UNCHANGED <<dbVars, appVars, clockVars, users, procs, session>>

\* user_records: borrowed_records["user"].fillna("").str.lower() == user.lower()
user_records(user) ==
    {i \in DOMAIN borrowed_records : Lower(borrowed_records[i].user) = Lower(user)}

\* the script run that draws the tab is the one of a Borrow Book click that
\* saved a loan of this user (due_date is then set, line 560), or another run
BorrowedInRun(user) ==
    IF /\ lastCall.op = "Borrow Book"
       /\ lastCall.ret = "borrowed"
       /\ lastCall.user = user
    THEN BOOLEAN ELSE {FALSE}

\* lines 696-698 read borrow_date (set at line 612 when the user has an open
\* loan), due_date (set at line 560 by a borrow of this run) and return_date
\* (set nowhere): the first name unset
UnsetName(user, borrowed_in_run) ==
    IF user_borrows(user) = {} THEN "borrow_date"
    ELSE IF ~borrowed_in_run THEN "due_date"
    ELSE "return_date"

\* user page, tab Your Records: with no record of the user, the note that
\* none was found; else the script run ends in a NameError at lines 696-698,
\* before st.dataframe
YourRecordsTab(user) ==
    /\ \E borrowed_in_run \in BorrowedInRun(user) :
          lastCall' = IF user_records(user) = {}
                      THEN [op |-> "Your Records", rows |-> << >>]
                      ELSE [op |-> "Your Records", error |-> "NameError",
                            name |-> UnsetName(user, borrowed_in_run)]
    /\ UNCHANGED <<dbVars, appVars, clockVars, users, procs, session>>

\* ------------------------------------------------ app.py: Manage Books
\* the spreadsheet the admin uploads
Uploads == {File(<<Row(Du, Some(1))>>)}

\* save_new_book_file(df): the upload is written to data/ under a new name;
\* os.listdir gives the files in no particular order
save_new_book_file(df, pos) ==
    /\ Len(dataFiles) < MaxFiles
    /\ dataFiles' = SubSeq(dataFiles, 1, pos) \o <<df>> \o
                      SubSeq(dataFiles, pos + 1, Len(dataFiles))
    /\ lastCall' = [op |-> "save_new_book_file"]
    /\ UNCHANGED <<borrowed_records, dbVars, clockVars, users, procs, session>>

\* ------------------------------------------------------- app.py: accounts
\* An email or a password is a tuple of characters, a run of non-blank
\* characters being written as one element.
AdminLocal == <<"admin@library.local">>
Shanker == <<"shanker@gmail.com">>
Reader == <<"reader@mail.com">>
Emails == {AdminLocal, Shanker, Reader, <<" ", "admin@library.local">>}
Passwords == {<<"admin123">>, <<"Isha@2004">>, <<"pw">>}

\* hashlib.sha256((salt + raw).encode("utf-8")).hexdigest()
hash_password(raw) == [sha256 |-> <<"smartlib_salt">> \o raw]

\* create_admin: the row of email is inserted as an admin, or updated to one
create_admin(table, email, password, name) ==
    IF email \in DOMAIN table
    THEN [table EXCEPT ![email].password = hash_password(password),
                       ![email].name = name,
                       ![email].role = "admin"]
    ELSE [e \in DOMAIN table \cup {email} |->
            IF e = email
            THEN [user_id |-> Cardinality(DOMAIN table) + 1, name |-> name,
                  password |-> hash_password(password), role |-> "admin"]
            ELSE table[e]]

\* init_db(); fix_borrowed_records_table();
\* create_admin(email="shanker@gmail.com", password="Isha@2004", name="Shanker")
StartupUsers(table) == create_admin(table, Shanker, <<"Isha@2004">>, <<"Shanker">>)

\* verify_user_credentials(email, password): the row of users with this
\* email, stripped, and the hash of this password; None without one
verify_user_credentials(table, email, password) ==
    IF email = << >> \/ password = << >> THEN NULL
    ELSE IF /\ Strip(email) \in DOMAIN table
            /\ table[Strip(email)].password = hash_password(password)
         THEN Some([user_id |-> table[Strip(email)].user_id,
                    name |-> table[Strip(email)].name,
                    email |-> Strip(email),
                    role |-> table[Strip(email)].role])
         ELSE NULL

\* Every click runs the script from its top: the session defaults of lines
\* 335-340 apply to a new session only, lines 351-353 run, then the page the
\* session is on is drawn and the handler of the clicked button runs.

\* session defaults: page "login", user None, user_id None
SessionDefaults == [page |-> "login", user |-> NULL, user_id |-> NULL]

\* page = "admin"/"user"; user = user["name"]; user_id = user["user_id"]
LoggedIn(page, user) ==
    [page |-> page, user |-> Some(Val(user).name), user_id |-> Some(Val(user).user_id)]

AdminAccepted_AnyRole(user) == user # NULL

\* if user and user["role"] == "admin"
AdminAccepted(user) == user # NULL /\ Val(user).role = "admin"

\* sidebar of the login page, Login as Admin
LoginAsAdmin(admin_email, admin_pass) ==
    LET table == StartupUsers(users)
        user == verify_user_credentials(table, admin_email, admin_pass)
    IN /\ session.page = "login"
       /\ users' = table
       /\ IF AdminAccepted(user)
          THEN /\ session' = LoggedIn("admin", user)
               /\ lastCall' = [op |-> "Login as Admin", page |-> "admin", user |-> user]
          ELSE /\ session' = session
               /\ lastCall' = [op |-> "Login as Admin", page |-> "login", user |-> user]
       /\ UNCHANGED <<books, books_seq, borrow_records, appVars, clockVars, procs>>

\* sidebar of the login page, Login
LoginAsUser(email, password) ==
    LET table == StartupUsers(users)
        user == verify_user_credentials(table, email, password)
    IN /\ session.page = "login"
       /\ users' = table
       /\ IF email # << >> /\ password # << >> /\ user # NULL
          THEN /\ session' = LoggedIn("user", user)
               /\ lastCall' = [op |-> "Login", page |-> "user", user |-> user]
          ELSE /\ session' = session
               /\ lastCall' = [op |-> "Login", page |-> "login", user |-> user]
       /\ UNCHANGED <<books, books_seq, borrow_records, appVars, clockVars, procs>>

EmailTaken_Never(table, email) == FALSE

\* email TEXT UNIQUE: the INSERT of an email the table holds fails
EmailTaken(table, email) == email \in DOMAIN table

\* INSERT INTO users (name, email, password, role) VALUES (..., 'user')
InsertUser(table, name, email, password) ==
    [e \in DOMAIN table \cup {email} |->
        IF e = email
        THEN [user_id |-> Cardinality(DOMAIN table) + 1, name |-> name,
              password |-> hash_password(password), role |-> "user"]
        ELSE table[e]]

\* create_user(name, email, password): what it returns, as <<ok, err>>
create_user_result(table, name, email, password) ==
    IF name = << >> \/ email = << >> \/ password = << >>
    THEN <<FALSE, Some("All fields required.")>>
    ELSE IF EmailTaken(table, email)
    THEN <<FALSE, Some("Email already registered.")>>
    ELSE <<TRUE, NULL>>

\* sidebar of the login page, Register: create_user(name, email, password)
Register(name, email, password) ==
    LET table == StartupUsers(users)
        ret == create_user_result(table, name, email, password)
    IN /\ session.page = "login"
       /\ users' = IF ret[1] THEN InsertUser(table, name, email, password) ELSE table
       /\ lastCall' = [op |-> "Register", ok |-> ret[1], err |-> ret[2], email |-> email,
                       filled |-> name # << >> /\ password # << >>]
       /\ UNCHANGED <<books, books_seq, borrow_records, appVars, clockVars, procs, session>>

\* sidebar of the admin page and of the user page, Logout
Logout ==
    /\ session.page \in {"admin", "user"}
    /\ users' = StartupUsers(users)
    /\ session' = [page |-> "login", user |-> NULL, user_id |-> NULL]
    /\ lastCall' = [op |-> "Logout"]
    /\ UNCHANGED <<books, books_seq, borrow_records, appVars, clockVars, procs>>

\* ------------------------------------------------------------------- time
Tick(d) ==
    /\ advances < MaxAdvances
    /\ clock' = clock + d
    /\ advances' = advances + 1
    /\ lastCall' = [op |-> "tick"]
    /\ UNCHANGED <<tz, books, borrow_records, dataFiles, borrowed_records, books_seq, users, procs, session>>

\* --------------------------------------------------------- specification
\* The two paths share no table and no file.  A run starts either with books
\* in the books table and an empty data/ folder, or with spreadsheets in data/
\* and an empty books table.
InitCommon ==
    /\ clock = 0
    /\ advances = 0
    /\ tz \in TZ
    /\ borrow_records = << >>
    /\ borrowed_records = << >>
    /\ lastCall = [op |-> "init"]
    /\ procs = [p \in ProcIds |-> Idle]
    /\ session = SessionDefaults

InitDb ==
    /\ InitCommon
    /\ books \in {[b \in BookIds |-> IF b = 1 THEN c ELSE 1] : c \in 0..MaxCopies}
    /\ books_seq = Cardinality(BookIds)
    /\ users = << >>
    /\ dataFiles = << >>

InitApp ==
    /\ InitCommon
    /\ books = << >>
    /\ books_seq = 0
    /\ users = StartupUsers(<< >>)
    /\ dataFiles \in Catalogs

InitAlias ==
    /\ InitCommon
    /\ books = << >>
    /\ books_seq = 0
    /\ users = StartupUsers(<< >>)
    /\ dataFiles \in AliasCatalogs

Init == InitDb \/ InitApp

BookArgs == BookIds \cup {UnknownBook}

BorrowDb == \E u \in UserIds, b \in BookArgs : borrow_book_db(u, b)
ReturnDb == \E u \in UserIds, b \in BookArgs : return_book_db(u, b)
Advance == \E d \in Jumps : Tick(d)

BorrowApp == \E user \in Names, t \in AvailableTitles : BorrowBook(user, t)
ReturnApp == \E user \in Names : \E t \in ReturnChoices(user) : ReturnBook(user, t)

Next == BorrowDb \/ ReturnDb \/ BorrowApp \/ ReturnApp \/ Advance

NextDb == BorrowDb \/ ReturnDb \/ Advance
NextApp == BorrowApp \/ ReturnApp \/ Advance

Spec == Init /\ [][Next]_vars
SpecDb == InitDb /\ [][NextDb]_vars
SpecApp == InitApp /\ [][NextApp]_vars
SpecAlias == InitAlias /\ [][NextApp]_vars

\* borrows and returns among the edits of the catalog; a run works on one of
\* the two paths
DbPath == dataFiles = << >>
AppPath == books = << >>

AddBook == DbPath /\ add_book(1)
UpdateBookCopies == DbPath /\ \E b \in BookArgs : update_book_copies(b, MaxCopies)
ImportBooks == DbPath /\ \E sheet \in Sheets : import_books_from_excel(sheet)
Upload ==
    AppPath /\ \E df \in Uploads, pos \in 0..Len(dataFiles) : save_new_book_file(df, pos)
CatalogBorrowDb == DbPath /\ BorrowDb
CatalogReturnDb == DbPath /\ ReturnDb
CatalogBorrowApp == AppPath /\ BorrowApp
CatalogReturnApp == AppPath /\ ReturnApp
NextDay == Tick(TicksPerDay)

InitCatalog == Init /\ tz = 0
NextCatalog ==
    \/ NextDay
    \/ CatalogBorrowDb \/ CatalogReturnDb \/ AddBook \/ UpdateBookCopies \/ ImportBooks
    \/ CatalogBorrowApp \/ CatalogReturnApp \/ Upload
SpecCatalog == InitCatalog /\ [][NextCatalog]_vars

\* the login page
Typed(S) == S \cup {<< >>}
AdminLogin == \E e \in Typed(Emails), pw \in Typed(Passwords) : LoginAsAdmin(e, pw)
UserLogin == \E e \in Typed(Emails), pw \in Typed(Passwords) : LoginAsUser(e, pw)
Registration ==
    \E n \in Typed({Al}), e \in Typed(Emails), pw \in Typed(Passwords) : Register(n, e, pw)

NextLogin == AdminLogin \/ UserLogin \/ Registration \/ Logout
InitLogin == InitApp /\ tz = 0
SpecLogin == InitLogin /\ [][NextLogin]_vars

\* a session on the user page: the handlers act for st.session_state.user
SessionBorrow ==
    /\ session.page = "user"
    /\ \E t \in AvailableTitles : BorrowBook(Val(session.user), t)
SessionReturn ==
    /\ session.page = "user"
    /\ \E t \in ReturnChoices(Val(session.user)) : ReturnBook(Val(session.user), t)
SessionLogin ==
    \E e \in {Shanker, Reader, AdminLocal}, pw \in {<<"pw">>, <<"Isha@2004">>} :
        LoginAsUser(e, pw)
SessionRegister ==
    \E n \in {Al, AL}, e \in {Reader, AdminLocal} : Register(n, e, <<"pw">>)

NextSession ==
    \/ SessionRegister \/ SessionLogin \/ Logout
    \/ SessionBorrow \/ SessionReturn \/ NextDay
InitSession ==
    /\ InitApp
    /\ tz = 0
    /\ dataFiles = <<File(<<Row(Du, Some(MaxCopies)), Row(It, Some(1))>>)>>
SpecSession == InitSession /\ [][NextSession]_vars

\* the listings of a ledger that borrows and returns have filled over time
UserRecordsDb == DbPath /\ \E uid \in UserIds : get_user_records_df_by_userid(uid)
AllRecordsDb == DbPath /\ get_all_borrow_records_df
AllUserRecords ==
    AppPath /\ \E sel \in {NULL} \cup {Some(n) : n \in Names} : AllUserRecordsTab(sel)
YourRecords == AppPath /\ \E user \in Names : YourRecordsTab(user)

NextList ==
    \/ Advance \/ BorrowDb \/ ReturnDb \/ BorrowApp \/ ReturnApp
    \/ UserRecordsDb \/ AllRecordsDb \/ AllUserRecords \/ YourRecords
SpecList == InitCatalog /\ [][NextList]_vars

\* db.py calls taken statement by statement: one call at a time, which a
\* failure may cut short (SpecTxn), or MaxProcs calls interleaved within one
\* tick of the clock (SpecConc)
StepsOf(p) ==
    \/ \E u \in UserIds, b \in BookArgs : borrow_select(p, u, b)
    \/ borrow_insert(p)
    \/ borrow_update(p)
    \/ \E u \in UserIds, b \in BookArgs : return_select(p, u, b)
    \/ return_update_record(p)
    \/ return_update_copies(p)
    \/ Commit(p)
    \/ Raise(p)

NextTxn == StepsOf(1) \/ Advance
NextConc == \E p \in ProcIds : StepsOf(p)

SpecTxn == InitDb /\ [][NextTxn]_vars
SpecConc == InitDb /\ [][NextConc]_vars

\* ================================================================== claims
\* The vocabulary of the claims, stated on the tables themselves.

\* the open records of the pair (u, b) in a borrow_records table
OpenDb(recs, u, b) ==
    {i \in DOMAIN recs :
        recs[i].user_id = u /\ recs[i].book_id = b /\ recs[i].return_date = NULL}

\* the open records of title t whose borrower is name, whatever its case
OpenApp(recs, name, t) ==
    {i \in DOMAIN recs :
        /\ Lower(recs[i].user) = Lower(name)
        /\ recs[i].title = t
        /\ recs[i].return_date = NULL}

\* the count cells a spreadsheet holds (NULL: an empty or absent cell)
CountCells(file) ==
    {file.rows[r].copies_available : r \in DOMAIN file.rows} \cup
    {file.rows[r].stock : r \in DOMAIN file.rows}

\* the fine the claims ask for, for a loan held this many ticks
ClaimedFine(held) == Max(0, Days(held) - GRACE_DAYS) * RATE

\* C1: under any sequence of borrows and returns, through db.py or through
\* the app.py handlers, from a catalog whose counts are all >= 0, every
\* book's available-copy count stays >= 0: the copies of every books row, every
\* count cell of the spreadsheets, and every count load_all_books lists.
C1_CountsNeverNegative ==
    /\ \A b \in DOMAIN books : books[b] >= 0
    /\ \A f \in DOMAIN dataFiles : \A cell \in CountCells(dataFiles[f]) :
          cell # NULL => Val(cell) >= 0
    /\ ~LoadRaises => \A fr \in BookRows : BookCopies(fr) >= 0

\* C1 witness: a borrow has taken a title's last copy (db.py or app.py).
C1_LastCopyTaken ==
    \/ /\ lastCall.op = "borrow_book_db"
       /\ lastCall.ret = TRUE
       /\ lastCall.res = Some(1)
    \/ /\ lastCall.op = "Borrow Book"
       /\ lastCall.ret = "borrowed"
       /\ \E fr \in BookRows : BookTitle(fr) = lastCall.title /\ BookCopies(fr) = 0

\* C2: borrow_book_db(u, b) on a book with 0 copies, or on a book_id the
\* catalog does not hold, returns False and changes neither borrow_records
\* nor any copies value.
C2_BorrowRefusedAtZero ==
    [][\A u \in UserIds, b \in BookArgs :
          (borrow_book_db(u, b) /\ (b \notin DOMAIN books \/ books[b] = 0))
          => /\ lastCall'.ret = FALSE
             /\ borrow_records' = borrow_records
             /\ books' = books]_vars

\* C2 witness: a borrow was refused, the book read having no row or 0 copies.
C2_RefusedSeen ==
    /\ lastCall.op = "borrow_book_db"
    /\ lastCall.ret = FALSE
    /\ lastCall.res \in {NULL, Some(0)}
    /\ borrow_records # << >>

\* C3: after a borrow_book_db(u, b) that returns True the book's copies is one
\* less than before and exactly one open record exists for the pair (u, b).
C3_BorrowTakesOneAndOpensOne ==
    [][\A u \in UserIds, b \in BookArgs :
          (borrow_book_db(u, b) /\ lastCall'.ret = TRUE)
          => /\ b \in DOMAIN books
             /\ books'[b] = books[b] - 1
             /\ Cardinality(OpenDb(borrow_records', u, b)) = 1]_vars

\* C4: in the Borrow Book handler, a borrow of title t by a borrower who has
\* an open record for t (names compared without case, titles exactly) is
\* refused with the already-borrowed warning and changes neither the ledger
\* nor any spreadsheet.
C4_DuplicateBorrowRefused ==
    [][\A user \in Names, t \in Titles :
          (BorrowBook(user, t) /\ OpenApp(borrowed_records, user, t) # {})
          => /\ lastCall'.ret = "already borrowed"
             /\ borrowed_records' = borrowed_records
             /\ dataFiles' = dataFiles]_vars

\* C4 witness: the warning was given to a session whose name differs in case
\* from the name the open record carries.
C4_DuplicateSeen ==
    /\ lastCall.op = "Borrow Book"
    /\ lastCall.ret = "already borrowed"
    /\ \E i \in OpenApp(borrowed_records, lastCall.user, lastCall.title) :
          borrowed_records[i].user # lastCall.user

\* C5: at most one open record for each (user_id, book_id) pair, in every
\* state borrow_book_db and return_book_db calls reach.
C5_OneOpenRecordPerPair ==
    \A u \in UserIds, b \in BookArgs : Cardinality(OpenDb(borrow_records, u, b)) <= 1

\* C6: return_book_db(u, b) with no open record of (u, b) returns None and
\* changes no record and no copies value; a second return of a loan is a no-op.
C6_ReturnWithoutLoanRefused ==
    [][\A u \in UserIds, b \in BookArgs :
          (return_book_db(u, b) /\ OpenDb(borrow_records, u, b) = {})
          => /\ lastCall'.ret = NULL
             /\ borrow_records' = borrow_records
             /\ books' = books]_vars

\* C6 witness: a return was refused although the ledger holds records, each
\* of them returned before.
C6_SecondReturnSeen ==
    /\ lastCall.op = "return_book_db"
    /\ lastCall.ret = NULL
    /\ borrow_records # << >>
    /\ \A i \in DOMAIN borrow_records : borrow_records[i].return_date # NULL

\* C7: after a return_book_db(u, b) that succeeds the book's copies is one
\* more than before, exactly one record of (u, b) that was open now has its
\* return_date set (no other record changed), and the fine stored in it and
\* returned is max(0, days elapsed since the borrow - 7) * RATE.
C7_ReturnGivesBackOneAndFines ==
    [][\A u \in UserIds, b \in BookArgs :
          (return_book_db(u, b) /\ lastCall'.ret # NULL)
          => /\ books'[b] = books[b] + 1
             /\ \E i \in OpenDb(borrow_records, u, b) :
                   /\ borrow_records'[i].return_date # NULL
                   /\ \A j \in DOMAIN borrow_records \ {i} :
                         borrow_records'[j] = borrow_records[j]
                   /\ borrow_records'[i].fine =
                         ClaimedFine(clock - borrow_records[i].borrow_date)
                   /\ lastCall'.ret = Some(borrow_records'[i].fine)]_vars

\* C8: in both return paths a loan held d whole days is fined
\* max(0, d - 7) * RATE: nothing up to 7 days, RATE on day 8, 7 * RATE on day
\* 14, never a negative amount.
C8_FineByDaysHeld ==
    [][/\ \A u \in UserIds, b \in BookArgs :
            (return_book_db(u, b) /\ lastCall'.ret # NULL)
            => \E i \in OpenDb(borrow_records, u, b) :
                  /\ borrow_records'[i].return_date # NULL
                  /\ lastCall'.ret =
                        Some(ClaimedFine(clock - borrow_records[i].borrow_date))
       /\ \A user \in Names, t \in Titles :
            ReturnBook(user, t)
            => \E i \in OpenApp(borrowed_records, user, t) :
                  /\ borrowed_records'[i].return_date # NULL
                  /\ lastCall'.ret =
                        Some(ClaimedFine((clock + tz) - borrowed_records[i].borrow_date))]_vars

\* C9: borrow_book_db(u, b) followed at once, at the same timestamp, by
\* return_book_db(u, b) yields fine 0, leaves open no record of (u, b) that
\* was not open before the borrow, and restores the copies of b.
C9_BorrowThenReturn ==
    [][\A u \in UserIds, b \in BookIds :
          (/\ lastCall.op = "borrow_book_db"
           /\ lastCall.ret = TRUE
           /\ borrow_records[Len(borrow_records)].user_id = u
           /\ borrow_records[Len(borrow_records)].book_id = b
           /\ return_book_db(u, b))
          => /\ lastCall'.ret = Some(0)
             /\ books'[b] = Val(lastCall.res)
             /\ borrow_records'[Len(borrow_records)].return_date # NULL]_vars

\* C10: a loan recorded under one spelling of a name is, for a session under
\* any other case variant of it, one of the loans the Return section offers;
\* a Return Book by that session closes it; and the Borrow Book handler
\* counts it as that session's own loan.
C10_BorrowerMatchedWithoutCase ==
    [][/\ \A i \in DOMAIN borrowed_records' : \A user \in Names :
            (/\ borrowed_records'[i].return_date = NULL
             /\ Lower(borrowed_records'[i].user) = Lower(user))
            => i \in user_borrows(user)'
       /\ \A user \in Names, t \in Titles :
            (BorrowBook(user, t) /\ OpenApp(borrowed_records, user, t) # {})
            => borrowed_records' = borrowed_records
       /\ \A user \in Names, t \in Titles :
            (ReturnBook(user, t) /\ OpenApp(borrowed_records, user, t) # {})
            => \E i \in OpenApp(borrowed_records, user, t) :
                  borrowed_records'[i].return_date # NULL]_vars

\* C10 witness: a session named "AL" has returned the loan recorded under "Al".
C10_ReturnedUnderOtherCase ==
    /\ lastCall.op = "Return Book"
    /\ lastCall.user = AL
    /\ Len(borrowed_records) = 1
    /\ borrowed_records[1].user = Al
    /\ borrowed_records[1].return_date # NULL

\* the records of book b a step adds to borrow_records
OpenedBy(b) ==
    {i \in DOMAIN borrow_records' \ DOMAIN borrow_records :
        borrow_records'[i].book_id = b}

\* the open records of book b a step closes
ClosedBy(b) ==
    {i \in DOMAIN borrow_records \cap DOMAIN borrow_records' :
        /\ borrow_records[i].book_id = b
        /\ borrow_records[i].return_date = NULL
        /\ borrow_records'[i].return_date # NULL}

\* C11: borrow_book_db and return_book_db are all-or-nothing, also when a
\* statement after the first write fails: every step of the committed tables
\* keeps all records, opens a record of a book exactly when it takes a copy of
\* it, and closes one exactly when it gives a copy back.
C11_AllOrNothing ==
    [][/\ DOMAIN borrow_records \subseteq DOMAIN borrow_records'
       /\ DOMAIN books' = DOMAIN books
       /\ \A b \in BookArgs :
            IF b \in DOMAIN books
            THEN books'[b] = books[b] + Cardinality(ClosedBy(b)) - Cardinality(OpenedBy(b))
            ELSE OpenedBy(b) = {} /\ ClosedBy(b) = {}]_vars

\* C11 witness: a borrow_book_db failed after its INSERT, before its UPDATE
\* of copies, with a record of an earlier borrow in the ledger.
C11_FailedAfterInsert ==
    /\ "at" \in DOMAIN lastCall
    /\ lastCall.op = "borrow_book_db"
    /\ lastCall.at = "update"
    /\ borrow_records # << >>

\* C13: borrows of a book running concurrently, statement by statement,
\* reach no state in which the copies of a book are below 0.
C13_ConcurrentBorrowsKeepCopies ==
    \A b \in DOMAIN books : books[b] >= 0

\* C14: returns running concurrently, statement by statement, give a copy
\* back only for a loan they close: no step raises the copies of a book
\* without closing an open record of that book.
C14_ConcurrentReturnsCreditOnce ==
    [][\A b \in DOMAIN books :
          books'[b] > books[b] => ClosedBy(b) # {}]_vars

\* C12: in the Borrow Book and Return Book handlers, for every title
\* load_all_books lists (also from files with the headers book_title / stock,
\* or with blanks around the stored title), a loan recorded or closed is never
\* left without a change of the spreadsheets.
C12_LoanAlwaysMovesStock ==
    [][/\ \A user \in Names, t \in Titles :
            (BorrowBook(user, t) /\ lastCall'.ret = "borrowed")
            => dataFiles' # dataFiles
       /\ \A user \in Names, t \in Titles :
            ReturnBook(user, t) => dataFiles' # dataFiles]_vars

\* what a step may do to the record at index i of a ledger: leave it as it
\* is or, if it is open, close it (set its return_date and its fine)
KeptOrClosed(before, after, i) ==
    /\ i \in DOMAIN after
    /\ \/ after[i] = before[i]
       \/ /\ before[i].return_date = NULL
          /\ after[i].return_date # NULL
          /\ [after[i] EXCEPT !.return_date = NULL, !.fine = before[i].fine] = before[i]

\* C15: under borrows, returns, imports and catalog edits, on both paths, no
\* record is ever removed, and a record changes only by the return that
\* closes it: once its return_date is set nothing of it changes again.
C15_AuditTrail ==
    [][/\ \A i \in DOMAIN borrow_records :
            KeptOrClosed(borrow_records, borrow_records', i)
       /\ \A i \in DOMAIN borrowed_records :
            KeptOrClosed(borrowed_records, borrowed_records', i)]_vars

\* C15 witness: the ledger holds a returned loan, a second loan of the same
\* borrower was returned a day or more later, on either path.
C15_ReturnedTwiceOverTime ==
    \/ /\ Len(borrow_records) = 2
       /\ borrow_records[1].return_date # NULL
       /\ borrow_records[2].return_date # NULL
       /\ borrow_records[1].user_id = borrow_records[2].user_id
       /\ borrow_records[1].return_date # borrow_records[2].return_date
    \/ /\ Len(borrowed_records) = 2
       /\ borrowed_records[1].return_date # NULL
       /\ borrowed_records[2].return_date # NULL
       /\ Lower(borrowed_records[1].user) = Lower(borrowed_records[2].user)
       /\ borrowed_records[1].return_date # borrowed_records[2].return_date

\* C16: in every state add_book, import_books_from_excel, borrow_book_db and
\* return_book_db reach, the book_id of every borrow record is the book_id of
\* a row of books.
C16_RecordsReferToBooks ==
    \A i \in DOMAIN borrow_records : borrow_records[i].book_id \in DOMAIN books

\* C17: a record the Borrow Book handler creates has borrow_date = now,
\* due = borrow_date + 7 days, no return_date and fine 0; and after every
\* step every open record of borrowed_records has fine 0 and
\* due = borrow_date + 7 days.
C17_NewLoanDatesAndFine ==
    [][/\ \A user \in Names, t \in Titles :
            (BorrowBook(user, t) /\ lastCall'.ret = "borrowed")
            => LET rec == borrowed_records'[Len(borrowed_records')] IN
               /\ Len(borrowed_records') = Len(borrowed_records) + 1
               /\ rec.user = user
               /\ rec.title = t
               /\ rec.borrow_date = clock + tz
               /\ rec.due = rec.borrow_date + 7 * TicksPerDay
               /\ rec.return_date = NULL
               /\ rec.fine = 0
       /\ \A i \in DOMAIN borrowed_records' :
            borrowed_records'[i].return_date = NULL
            => /\ borrowed_records'[i].fine = 0
               /\ borrowed_records'[i].due =
                     borrowed_records'[i].borrow_date + 7 * TicksPerDay]_vars

\* C17 witness: a loan was recorded at a later time than the first one, which
\* has been returned with a fine meanwhile.
C17_SecondLoanLater ==
    /\ lastCall.op = "Borrow Book"
    /\ lastCall.ret = "borrowed"
    /\ Len(borrowed_records) = 2
    /\ borrowed_records[1].fine > 0
    /\ borrowed_records[2].borrow_date > borrowed_records[1].borrow_date

\* the count in the row find_book_in_data_files gives for a title; NULL
\* when it gives no row
StockRowCount(t) ==
    LET hit == find_book_in_data_files(t) IN
    IF hit = NULL THEN NULL
    ELSE Some(CurrentCopies(dataFiles[Val(hit)[1]], Val(hit)[2], 1))

\* C18: the Borrow Book handler creates no loan record for a title whose
\* stock row, the row it then decrements, has count 0, also when the title
\* stands in several rows or in several spellings.
C18_NoLoanFromEmptyStockRow ==
    [][\A user \in Names, t \in Titles :
          (BorrowBook(user, t) /\ lastCall'.ret = "borrowed")
          => StockRowCount(t) # Some(0)]_vars

\* a listing shows exactly the rows idxs of the ledger recs, the latest
\* borrow first
ListsNewestFirst(call, recs, idxs) ==
    /\ "rows" \in DOMAIN call
    /\ {call.rows[i] : i \in DOMAIN call.rows} = idxs
    /\ Len(call.rows) = Cardinality(idxs)
    /\ \A i, j \in DOMAIN call.rows :
          i < j => recs[call.rows[i]].borrow_date >= recs[call.rows[j]].borrow_date

\* C19: every loan listing (get_user_records_df_by_userid,
\* get_all_borrow_records_df, the tab All User Records, the tab Your Records)
\* changes no table and no spreadsheet and returns the records it is asked
\* for ordered by borrow timestamp, newest first.
C19_ListingsNewestFirst ==
    [][/\ \A uid \in UserIds :
            get_user_records_df_by_userid(uid)
            => ListsNewestFirst(lastCall', borrow_records,
                                {i \in DOMAIN borrow_records :
                                    borrow_records[i].user_id = uid})
       /\ get_all_borrow_records_df
            => ListsNewestFirst(lastCall', borrow_records, DOMAIN borrow_records)
       /\ AllUserRecordsTab(NULL)
            => ListsNewestFirst(lastCall', borrowed_records, DOMAIN borrowed_records)
       /\ \A user \in Names :
            YourRecordsTab(user)
            => ListsNewestFirst(lastCall', borrowed_records,
                                {i \in DOMAIN borrowed_records :
                                    Lower(borrowed_records[i].user) = Lower(user)})
       /\ lastCall'.op \in {"get_user_records_df_by_userid", "get_all_borrow_records_df",
                             "All User Records", "Your Records"}
            => UNCHANGED <<books, borrow_records, dataFiles, borrowed_records, users>>]_vars

\* C20: after start-up the default admin credentials the login page
\* announces, admin@library.local / admin123, are accepted by
\* verify_user_credentials and give an account of role admin.
C20_AnnouncedAdminAccepted ==
    LET user == verify_user_credentials(users, AdminLocal, <<"admin123">>) IN
    /\ user # NULL
    /\ Val(user).role = "admin"

\* the open records of book b in a borrow_records table
OpenOfBook(recs, b) ==
    {i \in DOMAIN recs : recs[i].book_id = b /\ recs[i].return_date = NULL}

\* copies of book b plus its open records
StockSum(b) == books[b] + Cardinality(OpenOfBook(borrow_records, b))

\* C21: under any sequential sequence of borrow_book_db and return_book_db
\* calls, no call changes, for any book, the sum of its copies and the number
\* of its open records; the tables start with no record, so the sum stays
\* the initial stock and copies never exceeds it.
C21_StockConservedDb ==
    [][\A b \in DOMAIN books :
          /\ DOMAIN books' = DOMAIN books
          /\ StockSum(b)' = StockSum(b)
          /\ books'[b] <= StockSum(b)]_vars

\* C21 witness: a return has just given a copy back while another loan of
\* the same book is still open
C21_ReturnedWhileAnotherOpen ==
    /\ lastCall.op = "return_book_db"
    /\ lastCall.ret # NULL
    /\ \E b \in DOMAIN books :
          /\ OpenOfBook(borrow_records, b) # {}
          /\ \E i \in DOMAIN borrow_records :
                /\ borrow_records[i].book_id = b
                /\ borrow_records[i].return_date # NULL

RECURSIVE SumCopies(_)
\* the counts the catalog lists on a set of rows, added up
SumCopies(rows) ==
    IF rows = {} THEN 0
    ELSE LET fr == CHOOSE x \in rows : TRUE IN BookCopies(fr) + SumCopies(rows \ {fr})

\* copies_available of title t plus the open records of title t, the titles
\* compared as written (fold = FALSE) or without regard to case (fold = TRUE)
SameTitle(a, b, fold) == IF fold THEN Lower(a) = Lower(b) ELSE a = b

TitleSum(t, fold) ==
    SumCopies({fr \in BookRows : SameTitle(BookTitle(fr), t, fold)})
    + Cardinality({i \in DOMAIN borrowed_records :
                      /\ SameTitle(borrowed_records[i].title, t, fold)
                      /\ borrowed_records[i].return_date = NULL})

\* C22: under any sequential sequence of Borrow Book and Return Book actions
\* of app.py, no action changes, for any title, the sum of the title's
\* copies_available and the number of its open records (so the count never
\* rises above the original stock), whether titles that differ only in case
\* are counted apart or together.
C22_StockConservedApp ==
    [][\E fold \in BOOLEAN :
          \A t \in Titles : TitleSum(t, fold)' = TitleSum(t, fold)]_vars

\* a step leaves every record of a ledger as it was, but for at most one
\* record it appends or one it rewrites
OneRecordTouched(before, after) ==
    /\ Len(after) \in {Len(before), Len(before) + 1}
    /\ Cardinality({i \in DOMAIN before : after[i] # before[i]})
         + (Len(after) - Len(before)) <= 1

\* C23: a borrow or a return of title t, through db.py or through the app.py
\* handlers, leaves the available count of every other title as it was
\* (a title that differs from t only in letter case is another title) and
\* leaves every loan record but the one it creates or closes as it was.
C23_FrameOfBorrowAndReturn ==
    [][/\ \A u \in UserIds, b \in BookArgs :
            borrow_book_db(u, b) \/ return_book_db(u, b)
            => /\ \A o \in DOMAIN books \ {b} : books'[o] = books[o]
               /\ DOMAIN books' = DOMAIN books
               /\ OneRecordTouched(borrow_records, borrow_records')
               /\ UNCHANGED <<dataFiles, borrowed_records>>
       /\ \A user \in Names, t \in Titles :
            BorrowBook(user, t) \/ ReturnBook(user, t)
            => /\ BookRows' = BookRows
               /\ \A fr \in BookRows :
                     BookTitle(fr) # t => BookCopies(fr)' = BookCopies(fr)
               /\ OneRecordTouched(borrowed_records, borrowed_records')
               /\ UNCHANGED <<books, borrow_records>>]_vars

\* C24: the fine stored on every closed loan record, of borrow_records and
\* of borrowed_records, is the fine of the record's own stored timestamps:
\* max(0, whole days from the stored borrow_date to the stored return_date
\* - 7) * RATE.
C24_FineMatchesStoredDates ==
    /\ \A i \in DOMAIN borrow_records :
          borrow_records[i].return_date # NULL
          => borrow_records[i].fine =
               ClaimedFine(Val(borrow_records[i].return_date)
                           - borrow_records[i].borrow_date)
    /\ \A i \in DOMAIN borrowed_records :
          borrowed_records[i].return_date # NULL
          => borrowed_records[i].fine =
               ClaimedFine(Val(borrowed_records[i].return_date)
                           - borrowed_records[i].borrow_date)

\* the accounts whose user_id is id
AccountsOf(id) == {e \in DOMAIN users : users[e].user_id = id}

\* the page of the session agrees with the account the session names
SessionConsistent ==
    /\ session.page \in {"login", "admin", "user"}
    /\ session.page = "admin"
         => \E e \in AccountsOf(Val(session.user_id)) :
               users[e].role = "admin" /\ session.user = Some(users[e].name)
    /\ session.page = "user"
         => \E e \in AccountsOf(Val(session.user_id)) :
               session.user = Some(users[e].name)
    /\ session.page = "login" <=> session.user = NULL /\ session.user_id = NULL
    /\ session.page = "login" <=> session.user = NULL \/ session.user_id = NULL

\* C27: in every state reached by login attempts, registrations and logouts,
\* the page is "admin" only if the session's user_id is that of an account of
\* role admin, "user" only if it is that of an account, the page being left
\* "login" only by a login whose verify_user_credentials succeeded (for the
\* admin page: with role admin); the page is "login" exactly when the
\* session's user and user_id are both None, and a logout clears both.
C27_SessionStateMachine ==
    /\ []SessionConsistent
    /\ [][/\ session' # session /\ session'.page # "login"
            => /\ lastCall'.op = (IF session'.page = "admin" THEN "Login as Admin" ELSE "Login")
               /\ lastCall'.user # NULL
               /\ session'.page = "admin" => Val(lastCall'.user).role = "admin"
               /\ \E e \in Emails, pw \in Passwords :
                     lastCall'.user = verify_user_credentials(users', e, pw)
               /\ session' = LoggedIn(session'.page, lastCall'.user)
          /\ Logout => session' = SessionDefaults]_vars

\* C27 witness: an account of role admin is on the user page, having signed
\* in through the user login after a logout from the admin page
C27_AdminOnUserPage ==
    /\ session.page = "user"
    /\ \E e \in AccountsOf(Val(session.user_id)) : users[e].role = "admin"

\* C28: no two accounts share an email or a user_id; create_user with an
\* email the table holds returns (False, "Email already registered.") and
\* leaves the users table, the account's password and role included, as it
\* was; and create_admin, called again with the same arguments as every
\* script run does, leaves the table with the one account of that email.
C28_OneAccountPerEmail ==
    /\ [](\A e1, e2 \in DOMAIN users :
             users[e1].user_id = users[e2].user_id => e1 = e2)
    /\ [][/\ /\ lastCall'.op = "Register"
             /\ lastCall'.email \in DOMAIN users
             /\ lastCall'.filled
             => /\ lastCall'.ok = FALSE
                /\ lastCall'.err = Some("Email already registered.")
                /\ users' = users
          /\ Shanker \in DOMAIN users'
          /\ StartupUsers(StartupUsers(users)) = StartupUsers(users)
          /\ StartupUsers(users') = users'
          /\ Cardinality(DOMAIN users') \in
                {Cardinality(DOMAIN users), Cardinality(DOMAIN users) + 1}]_vars

\* C28 witness: a registration was refused for its email while the table
\* holds a registered user next to the admin
C28_DuplicateEmailRefused ==
    /\ lastCall.op = "Register"
    /\ lastCall.err = Some("Email already registered.")
    /\ \E e \in DOMAIN users : users[e].role = "user"

\* C29: when create_user(name, email, password) returns (True, None), a
\* following verify_user_credentials with the same email and password
\* strings, blanks around the email included, returns the account just
\* created, and with any other password returns None.
C29_RegisterThenVerify ==
    [][\A n \in {Al}, e \in Emails, pw \in Passwords :
          Register(n, e, pw) /\ lastCall'.ok
          => /\ verify_user_credentials(users', e, pw) # NULL
             /\ Val(verify_user_credentials(users', e, pw)).user_id = users'[e].user_id
             /\ \A other \in Passwords \ {pw} :
                   verify_user_credentials(users', e, other) = NULL]_vars

\* C26: for a user with at least one loan record the tab Your Records is
\* drawn without a raise, whether or not the script run made a borrow and
\* whether or not the user has an open loan.
C26_YourRecordsDrawn ==
    [][\A user \in Names :
          YourRecordsTab(user) /\ user_records(user) # {}
          => "error" \notin DOMAIN lastCall']_vars

\* C25: a loan a session of one account has just opened is, for every other
\* account (another user_id, another email), neither among the open loans
\* the handlers treat as that account's own (the ones its session lists and
\* can close) nor a loan that blocks that account from borrowing the title,
\* whatever the display names of the two accounts.
C25_LoansOfAccountsApart ==
    /\ lastCall.op = "Borrow Book"
    /\ lastCall.ret = "borrowed"
    /\ session.page = "user"
    => LET rec == borrowed_records[Len(borrowed_records)] IN
       \A e \in DOMAIN users :
          users[e].user_id # Val(session.user_id)
          => /\ ~IsUserBorrow(rec, users[e].name)
             /\ ~IsExistingLoan(rec, users[e].name, rec.title)

====
